---------------------------- MODULE Spec2Model ----------------------------
(***************************************************************************)
(* The OOP Learning API of src/main.py: an in-memory store of lessons and  *)
(* quizzes, the read handlers over it, and submit_quiz, which grades a     *)
(* submission against a quiz's answer key.                                 *)
(*                                                                         *)
(* Text is modelled by TLA+ strings (Len, SubSeq and \o act on them as on  *)
(* Python's str).  A float percentage is modelled exactly: the unrounded   *)
(* value as a fraction <<numerator, denominator>>, the value rounded to    *)
(* two decimals as an integer number of hundredths (66.67 is 6667).        *)
(***************************************************************************)
EXTENDS Integers, Sequences, FiniteSets, TLC

VARIABLES
  quizzes_db,   \* src/main.py:273  the quiz store
  lessons_db,   \* src/main.py:64   the lesson store
  request,      \* the request the service handled last (one at a time)
  response,     \* its response
  inflight,     \* concurrent service: per request slot, the handler's frame
  grade_in,     \* grading arithmetic alone: the <<score, total>> it is given
  grade_out,    \* grading arithmetic alone: the QuizResult fields it produces
  http_request, \* routing: the HTTP request a client sent for an operation
  http_routed   \* routing: the endpoint it was dispatched to and the status

vars == <<quizzes_db, lessons_db, request, response, inflight,
          grade_in, grade_out, http_request, http_routed>>

(***************************************************************************)
(* DATA: the literals of src/main.py.  Lesson.code_example is left out: no *)
(* handler reads it.                                                       *)
(***************************************************************************)
\* src/main.py:65-96
Lesson1 ==
  [id |-> 1,
   title |-> "Introduction to Classes and Objects",
   difficulty |-> "beginner",
   content |->
     "\nClasses are blueprints for creating objects. An object is an instance of a class.\nA class defines attributes (data) and methods (functions) that objects of that class will have.\n\nKey Points:\n- A class is a template\n- An object is a concrete instance created from a class\n- Classes group related data and behavior together\n- This helps organize code and make it reusable\n        ",
   key_concepts |-> <<"Class", "Object", "Instance", "Attributes", "Methods", "Constructor">>]

\* src/main.py:97-135
Lesson2 ==
  [id |-> 2,
   title |-> "Inheritance",
   difficulty |-> "intermediate",
   content |->
     "\nInheritance allows a class to inherit attributes and methods from another class.\nThe class being inherited from is called the parent (or base) class.\nThe class that inherits is called the child (or derived) class.\n\nBenefits:\n- Code reusability: avoid repeating code\n- Logical structure: represent real-world relationships\n- Polymorphism: child classes can override parent methods\n        ",
   key_concepts |-> <<"Inheritance", "Parent Class", "Child Class", "Override", "super()">>]

\* src/main.py:136-180
Lesson3 ==
  [id |-> 3,
   title |-> "Encapsulation",
   difficulty |-> "intermediate",
   content |->
     "\nEncapsulation is the bundling of data (attributes) and methods into a single unit (class).\nIt also involves hiding internal details from the outside world using access modifiers.\n\nIn Python:\n- Public: accessible from anywhere (no prefix)\n- Protected: intended for internal use (_prefix)\n- Private: not accessible outside the class (__prefix)\n\nBenefits:\n- Data protection: control how data is accessed and modified\n- Data hiding: expose only necessary interfaces\n- Maintainability: change internal implementation without affecting external code\n        ",
   key_concepts |-> <<"Encapsulation", "Access Modifiers", "Private", "Protected", "Public", "Getters", "Setters">>]

\* src/main.py:181-221
Lesson4 ==
  [id |-> 4,
   title |-> "Polymorphism",
   difficulty |-> "advanced",
   content |->
     "\nPolymorphism means \"many forms\". It allows objects of different types to be treated as objects of a common parent type.\nThere are two main types: compile-time (method overloading) and runtime (method overriding).\n\nBenefits:\n- Write flexible and reusable code\n- Use a single interface for different data types\n- Makes code extensible and maintainable\n        ",
   key_concepts |-> <<"Polymorphism", "Method Overriding", "Interface", "Dynamic Dispatch">>]

\* src/main.py:222-270
Lesson5 ==
  [id |-> 5,
   title |-> "Abstraction",
   difficulty |-> "advanced",
   content |->
     "\nAbstraction is the concept of hiding complex implementation details and showing only the necessary features.\nIt focuses on what an object does rather than how it does it.\n\nIn Python, we use abstract classes and abstract methods to enforce abstraction.\n\nBenefits:\n- Reduce complexity by hiding implementation details\n- Define a clear interface for subclasses\n- Enforce consistency across implementations\n        ",
   key_concepts |-> <<"Abstraction", "Abstract Class", "Abstract Method", "ABC", "Interface">>]

\* src/main.py:274-316
Quiz1 ==
  [id |-> 1,
   lesson_id |-> 1,
   title |-> "Classes and Objects Quiz",
   questions |-> <<
     [id |-> 1,
      question |-> "What is a class in OOP?",
      options |-> <<"An instance of an object",
                    "A blueprint for creating objects",
                    "A method of a program",
                    "A type of variable">>,
      correct_answer |-> 1,
      explanation |->
        "A class is a blueprint or template that defines the structure and behavior for objects."],
     [id |-> 2,
      question |-> "What is an object?",
      options |-> <<"A collection of variables",
                    "An instance of a class",
                    "A function definition",
                    "A data type">>,
      correct_answer |-> 1,
      explanation |->
        "An object is a concrete instance created from a class. It has actual values for the attributes defined in the class."],
     [id |-> 3,
      question |-> "What does __init__ do in a class?",
      options |-> <<"Initializes the program",
                    "Deletes an object",
                    "Constructs and initializes a new object",
                    "Returns a value">>,
      correct_answer |-> 2,
      explanation |->
        "__init__ is the constructor method that initializes a new object when it's created."]>>]

\* src/main.py:317-347
Quiz2 ==
  [id |-> 2,
   lesson_id |-> 2,
   title |-> "Inheritance Quiz",
   questions |-> <<
     [id |-> 1,
      question |-> "What is inheritance?",
      options |-> <<"Passing money to children",
                    "A child class inheriting attributes and methods from a parent class",
                    "Creating multiple objects",
                    "Copying code from one file to another">>,
      correct_answer |-> 1,
      explanation |->
        "Inheritance allows a class (child) to inherit attributes and methods from another class (parent)."],
     [id |-> 2,
      question |-> "What is the main benefit of inheritance?",
      options |-> <<"It makes code longer",
                    "It helps organize imports",
                    "Code reusability and logical structure",
                    "It slows down execution">>,
      correct_answer |-> 2,
      explanation |->
        "Inheritance promotes code reusability and creates a logical hierarchical structure."]>>]

\* lessons_db as the module builds it.
LessonsData == <<Lesson1, Lesson2, Lesson3, Lesson4, Lesson5>>

\* quizzes_db as the module builds it.
QuizzesData == <<Quiz1, Quiz2>>

(***************************************************************************)
(* BOUNDS AND INPUT SETS                                                   *)
(***************************************************************************)
\* Longest submission (QuizSubmission.answers) a request carries.
MaxAnswers == 3

\* Most questions of the generated third quiz.
MaxExtraQuestions == 2

\* quiz_id path parameters: 1 and 2 are in QuizzesData, 3 only in a store
\* with a third quiz, 4 in none.
QuizIdInputs == {1, 2, 3, 4}

\* QuizAnswer.question_id values: 4 is a question of no quiz, 3 of Quiz1 only.
QuestionIdInputs == {1, 2, 3, 4}

\* QuizAnswer.answer values (option indices).
AnswerInputs == {0, 1, 2}

\* lesson_id path parameters: 1..5 are in LessonsData, 6 is not.
LessonIdInputs == {1, 2, 3, 4, 5, 6}

SeqsUpTo(S, n) == UNION {[1..k -> S] : k \in 0..n}

QuizAnswers == [question_id : QuestionIdInputs, answer : AnswerInputs]

Submissions == {[answers |-> a] : a \in SeqsUpTo(QuizAnswers, MaxAnswers)}

(***************************************************************************)
(* A quiz the Quiz model admits besides the two of the literal store: n    *)
(* questions (none when n = 0) whose ids n..1 run against their positions. *)
(***************************************************************************)
ExtraQuiz(n) ==
  [id |-> 3,
   lesson_id |-> 3,
   title |-> "Encapsulation Quiz",
   questions |->
     [i \in 1..n |->
        [id |-> n + 1 - i,
         question |-> "Question " \o ToString(n + 1 - i),
         options |-> <<"A", "B", "C", "D">>,
         correct_answer |-> i % 3,
         explanation |-> "Explanation " \o ToString(n + 1 - i)]]]

\* The stores the service may start with: the literal one, and the literal
\* one followed by a third quiz of 0..MaxExtraQuestions questions.
QuizStores ==
  {QuizzesData} \cup {Append(QuizzesData, ExtraQuiz(n)) : n \in 0..MaxExtraQuestions}

(***************************************************************************)
(* HELPERS                                                                 *)
(***************************************************************************)
Min(S) == CHOOSE x \in S : \A y \in S : x <= y

\* Python's next((x for x in xs if x.id == id), None): the first element
\* with that id as <<x>>, None as <<>>.
NextById(xs, id) ==
  LET hits == {i \in 1..Len(xs) : xs[i].id = id}
  IN  IF hits = {} THEN <<>> ELSE <<xs[Min(hits)]>>

\* A variant of HTTPException: the exception returned instead of raised,
\* which FastAPI renders as a success carrying the exception's fields.
ReturnedHTTPException(status_code, detail) ==
  [status |-> 200, body |-> [status_code |-> status_code, detail |-> detail]]

\* HTTPException(status_code=404, detail=...) as FastAPI renders it.
HTTPException(status_code, detail) ==
  [status |-> status_code, body |-> [detail |-> detail]]

\* A handler's return value as FastAPI renders it.
Ok(body) == [status |-> 200, body |-> body]

(***************************************************************************)
(* submit_quiz                                                             *)
(***************************************************************************)
\* The marks of the feedback lines, U+2713 and U+2717 in the source.
CheckMark == "(U+2713)"
CrossMark == "(U+2717)"

\* quiz = next((q for q in quizzes_db if q.id == quiz_id), None)
FindQuiz(quiz_id) == NextById(quizzes_db, quiz_id)

\* A variant of FindQuestion: the question at position question_id of the
\* quiz, not the one whose id is question_id.
FindQuestionByPosition(quiz, answer) ==
  IF answer.question_id \in DOMAIN quiz.questions
  THEN <<quiz.questions[answer.question_id]>> ELSE <<>>

\* question = next((q for q in quiz.questions if q.id == answer.question_id), None)
FindQuestion(quiz, answer) == NextById(quiz.questions, answer.question_id)

\* answer.answer == question.correct_answer
IsCorrect(answer, question) == answer.answer = question.correct_answer

\* f"Q{answer.question_id}: (mark) Correct! {question.explanation}"
CorrectLine(answer, question) ==
  "Q" \o ToString(answer.question_id) \o ": " \o CheckMark \o " Correct! "
      \o question.explanation

\* f"Q{answer.question_id}: (mark) Incorrect. {question.explanation}"
IncorrectLine(answer, question) ==
  "Q" \o ToString(answer.question_id) \o ": " \o CrossMark \o " Incorrect. "
      \o question.explanation

\* A variant of NewAccumulator: score and feedback kept outside the handler,
\* so a request starts from what a request in flight has accumulated.
SharedAccumulator ==
  LET busy == {inflight[r] : r \in {s \in DOMAIN inflight : inflight[s].locals # <<>>}}
  IN  IF busy = {} THEN [score |-> 0, feedback |-> <<>>]
      ELSE LET f == CHOOSE f \in busy : TRUE
           IN  [score |-> f.locals[1].score, feedback |-> f.locals[1].feedback]

\* score = 0; feedback = []
NewAccumulator == [score |-> 0, feedback |-> <<>>]

\* A variant of GradeAnswer: a question id answered before is not graded
\* again.
GradeAnswerOncePerQuestion(quiz, answer, acc) ==
  LET question == NextById(quiz.questions, answer.question_id)
      prefix == "Q" \o ToString(answer.question_id) \o ":"
      seen == \E k \in DOMAIN acc.feedback :
                SubSeq(acc.feedback[k], 1, Len(prefix)) = prefix
      right == question # <<>> /\ answer.answer = question[1].correct_answer
  IN  IF question = <<>> \/ seen THEN acc
      ELSE [score |-> acc.score + (IF right THEN 1 ELSE 0),
            feedback |-> Append(acc.feedback,
                           prefix \o " "
                             \o (IF right THEN CheckMark \o " Correct! "
                                 ELSE CrossMark \o " Incorrect. ")
                             \o question[1].explanation)]

\* A variant of GradeAnswer: an answer to a question the quiz does not have
\* is reported in the feedback instead of skipped.
GradeAnswerReportsUnknown(quiz, answer, acc) ==
  LET question == NextById(quiz.questions, answer.question_id)
      prefix == "Q" \o ToString(answer.question_id) \o ": "
  IN  IF question = <<>>
      THEN [score |-> acc.score,
            feedback |-> Append(acc.feedback, prefix \o "Unknown question")]
      ELSE IF answer.answer = question[1].correct_answer
           THEN [score |-> acc.score + 1,
                 feedback |-> Append(acc.feedback,
                                prefix \o CheckMark \o " Correct! "
                                  \o question[1].explanation)]
           ELSE [score |-> acc.score,
                 feedback |-> Append(acc.feedback,
                                prefix \o CrossMark \o " Incorrect. "
                                  \o question[1].explanation)]

\* One iteration of "for answer in submission.answers", on the local
\* accumulator acc = [score, feedback].
GradeAnswer(quiz, answer, acc) ==
  LET question == FindQuestion(quiz, answer)
  IN  IF question = <<>> THEN acc
      ELSE IF IsCorrect(answer, question[1])
           THEN [score |-> acc.score + 1,
                 feedback |-> Append(acc.feedback, CorrectLine(answer, question[1]))]
           ELSE [score |-> acc.score,
                 feedback |-> Append(acc.feedback, IncorrectLine(answer, question[1]))]

\* The whole loop over answers, in the order given.
RECURSIVE GradeAnswers(_, _, _)
GradeAnswers(quiz, answers, acc) ==
  IF answers = <<>> THEN acc
  ELSE GradeAnswers(quiz, Tail(answers), GradeAnswer(quiz, Head(answers), acc))

\* total = len(quiz.questions)
Total(quiz) == Len(quiz.questions)

\* percentage = (score / total * 100) if total > 0 else 0, as a fraction.
\* The double the code computes compares with 70 as this fraction does for
\* every total below 10^15.
Percentage(score, total) ==
  IF total > 0 THEN <<score * 100, total>> ELSE <<0, 1>>

\* passed = percentage >= 70
Passed(percentage) == percentage[1] >= 70 * percentage[2]

\* round(percentage, 2), in hundredths: to the nearest, a tie to the even.
Round2(percentage) ==
  LET n == percentage[1] * 100
      d == percentage[2]
      q == n \div d
      r == n % d
  IN  IF 2 * r < d THEN q
      ELSE IF 2 * r > d THEN q + 1
      ELSE IF q % 2 = 0 THEN q ELSE q + 1

\* A variant of QuizResult: total counts the answers graded, not the
\* questions of the quiz.
QuizResultOfGradedAnswers(score, total, feedback) ==
  LET percentage == IF Len(feedback) > 0
                    THEN <<score * 100, Len(feedback)>> ELSE <<0, 1>>
      q == (percentage[1] * 100) \div percentage[2]
  IN  [score |-> score,
       total |-> Len(feedback),
       percentage |-> q,
       passed |-> percentage[1] >= 70 * percentage[2],
       feedback |-> feedback]

\* The statements after the loop: total, percentage, passed and the
\* QuizResult returned.
QuizResult(score, total, feedback) ==
  LET percentage == Percentage(score, total)
      passed == Passed(percentage)
  IN  [score |-> score,
       total |-> total,
       percentage |-> Round2(percentage),
       passed |-> passed,
       feedback |-> feedback]

\* POST /quizzes/{quiz_id}/submit
submit_quiz(quiz_id, submission) ==
  LET quiz == FindQuiz(quiz_id)
  IN  IF quiz = <<>> THEN HTTPException(404, "Quiz not found")
      ELSE LET acc == GradeAnswers(quiz[1], submission.answers, NewAccumulator)
           IN  Ok(QuizResult(acc.score, Total(quiz[1]), acc.feedback))

\* GET /quizzes
get_all_quizzes == Ok(quizzes_db)

\* GET /quizzes/{quiz_id}
get_quiz(quiz_id) ==
  LET quiz == FindQuiz(quiz_id)
  IN  IF quiz = <<>> THEN HTTPException(404, "Quiz not found") ELSE Ok(quiz[1])

\* GET /quizzes/lesson/{lesson_id}
get_quizzes_for_lesson(lesson_id) ==
  LET OfLesson(q) == q.lesson_id = lesson_id
  IN  Ok(SelectSeq(quizzes_db, OfLesson))

(***************************************************************************)
(* LESSON HANDLERS                                                         *)
(***************************************************************************)
\* class Difficulty(str, Enum)
Difficulty == {"beginner", "intermediate", "advanced"}

UpperCase == "ABCDEFGHIJKLMNOPQRSTUVWXYZ"
LowerCase == "abcdefghijklmnopqrstuvwxyz"

\* str.lower() on the characters it changes: each uppercase letter to its
\* lowercase letter.
LowerTable ==
  [c \in {SubSeq(UpperCase, i, i) : i \in 1..Len(UpperCase)} |->
     LET i == CHOOSE j \in 1..Len(UpperCase) : SubSeq(UpperCase, j, j) = c
     IN  SubSeq(LowerCase, i, i)]

\* str.lower() of a one-character string.
LowerChar(c) == IF c \in DOMAIN LowerTable THEN LowerTable[c] ELSE c

\* str.lower(): every character lowered, the others kept.
RECURSIVE LowerOf(_)
LowerOf(s) ==
  IF Len(s) = 0 THEN s
  ELSE IF Len(s) = 1 THEN LowerChar(s)
  ELSE LET h == Len(s) \div 2
       IN  LowerOf(SubSeq(s, 1, h)) \o LowerOf(SubSeq(s, h + 1, Len(s)))

\* The texts of the literal lessons, lowered once.
LoweredTexts ==
  [s \in UNION {{LessonsData[i].title, LessonsData[i].content}
                  \cup {LessonsData[i].key_concepts[c] :
                          c \in DOMAIN LessonsData[i].key_concepts} :
                i \in DOMAIN LessonsData} |-> LowerOf(s)]

\* str.lower(), looked up for a text lowered before.
Lower(s) == IF s \in DOMAIN LoweredTexts THEN LoweredTexts[s] ELSE LowerOf(s)

\* Python's "sub in s" on strings: s has sub as a contiguous substring.
Contains(sub, s) ==
  \E k \in 0..(Len(s) - Len(sub)) : SubSeq(s, k + 1, k + Len(sub)) = sub

\* A variant of LessonMatches: a keyword found in a key concept also
\* includes the lesson.
LessonOrConceptMatches(keyword_lower, l) ==
  \/ Contains(keyword_lower, Lower(l.title))
  \/ Contains(keyword_lower, Lower(l.content))
  \/ \E i \in DOMAIN l.key_concepts : Contains(keyword_lower, Lower(l.key_concepts[i]))

\* The comprehension's condition:
\* keyword_lower in l.title.lower() or keyword_lower in l.content.lower()
LessonMatches(keyword_lower, l) ==
  \/ Contains(keyword_lower, Lower(l.title))
  \/ Contains(keyword_lower, Lower(l.content))

\* The inner comprehension's condition: keyword_lower in c.lower()
ConceptMatches(keyword_lower, c) == Contains(keyword_lower, Lower(c))

\* The dict built for one lesson of the result.
SearchRow(keyword_lower, l) ==
  LET Matching(c) == ConceptMatches(keyword_lower, c)
  IN  [id |-> l.id,
       title |-> l.title,
       difficulty |-> l.difficulty,
       matching_concepts |-> SelectSeq(l.key_concepts, Matching)]

\* GET /lessons
get_all_lessons == Ok(lessons_db)

\* GET /lessons/{lesson_id}
get_lesson(lesson_id) ==
  LET lesson == NextById(lessons_db, lesson_id)
  IN  IF lesson = <<>> THEN HTTPException(404, "Lesson not found")
      ELSE Ok(lesson[1])

\* GET /lessons/difficulty/{difficulty}
get_lessons_by_difficulty(difficulty) ==
  LET OfDifficulty(l) == l.difficulty = difficulty
  IN  Ok(SelectSeq(lessons_db, OfDifficulty))

\* GET /lessons/search
search_lessons(keyword) ==
  LET keyword_lower == Lower(keyword)
      Included(l) == LessonMatches(keyword_lower, l)
      included == SelectSeq(lessons_db, Included)
  IN  Ok([i \in 1..Len(included) |-> SearchRow(keyword_lower, included[i])])

RECURSIVE SumOfLens(_)
SumOfLens(quizzes) ==
  IF quizzes = <<>> THEN 0
  ELSE Len(Head(quizzes).questions) + SumOfLens(Tail(quizzes))

\* len([l for l in lessons_db if l.difficulty == d])
CountOfDifficulty(d) ==
  LET OfDifficulty(l) == l.difficulty = d
  IN  Len(SelectSeq(lessons_db, OfDifficulty))

\* GET /progress/summary
get_progress_summary ==
  Ok([total_lessons |-> Len(lessons_db),
      lessons_by_difficulty |->
        [beginner |-> CountOfDifficulty("beginner"),
         intermediate |-> CountOfDifficulty("intermediate"),
         advanced |-> CountOfDifficulty("advanced")],
      total_quizzes |-> Len(quizzes_db),
      total_quiz_questions |-> SumOfLens(quizzes_db)])

\* GET /
root ==
  Ok([message |-> "Welcome to OOP Learning API",
      version |-> "1.0.0",
      endpoints |->
        [lessons |-> "/lessons",
         lesson_by_id |-> "/lessons/{lesson_id}",
         lessons_by_difficulty |-> "/lessons/difficulty/{difficulty}",
         quizzes |-> "/quizzes",
         quiz |-> "/quizzes/{quiz_id}",
         submit_quiz |-> "/quizzes/{quiz_id}/submit"]])

\* One step of the learning path.
PathStep(step, title, difficulty, time_estimate) ==
  [step |-> step, lesson_id |-> step, title |-> title,
   difficulty |-> difficulty, time_estimate |-> time_estimate]

\* GET /learning-path
get_learning_path ==
  Ok([title |-> "Complete OOP Learning Path",
      description |-> "A recommended progression to learn OOP concepts",
      path |->
        <<PathStep(1, "Introduction to Classes and Objects", "beginner", "30 minutes"),
          PathStep(2, "Inheritance", "intermediate", "40 minutes"),
          PathStep(3, "Encapsulation", "intermediate", "40 minutes"),
          PathStep(4, "Polymorphism", "advanced", "45 minutes"),
          PathStep(5, "Abstraction", "advanced", "45 minutes")>>])

(***************************************************************************)
(* THE SERVICE, ONE REQUEST AT A TIME (Spec, SpecLessons)                  *)
(* Each handler action is one handler run to completion on inputs the      *)
(* request validation admits; request and response hold the exchange until *)
(* Reply hands the response to the client.                                 *)
(***************************************************************************)
\* Longest search keyword.
MaxKeywordLen == 3

\* The characters search keywords are made of.
KeywordChars == {"a", "b", "c", "h", "C", "H"}

RECURSIVE StringsOfLen(_)
StringsOfLen(n) ==
  IF n = 0 THEN {""}
  ELSE {s \o c : s \in StringsOfLen(n - 1), c \in KeywordChars}

Keywords == UNION {StringsOfLen(n) : n \in 0..MaxKeywordLen}

NoRequest == [op |-> "none"]
NoResponse == [status |-> 0, body |-> <<>>]

\* The variables of the other specifications, at rest.
ConcurrentIdle == inflight = <<>>
ArithmeticIdle == grade_in = <<0, 0>> /\ grade_out = <<>>
RoutingIdle == http_request = <<>> /\ http_routed = <<>>

\* The lesson endpoints are served from the literal stores.
InitLessons ==
  /\ quizzes_db = QuizzesData
  /\ lessons_db = LessonsData
  /\ request = NoRequest
  /\ response = NoResponse
  /\ ConcurrentIdle /\ ArithmeticIdle /\ RoutingIdle

Init ==
  /\ quizzes_db \in QuizStores
  /\ lessons_db = LessonsData
  /\ request = NoRequest
  /\ response = NoResponse
  /\ ConcurrentIdle /\ ArithmeticIdle /\ RoutingIdle

\* No handler assigns to the stores or to another specification's variables.
Frame ==
  UNCHANGED <<quizzes_db, lessons_db, inflight, grade_in, grade_out,
              http_request, http_routed>>

Root ==
  /\ request = NoRequest
  /\ request' = [op |-> "root"]
  /\ response' = root
  /\ Frame

GetAllLessons ==
  /\ request = NoRequest
  /\ request' = [op |-> "get_all_lessons"]
  /\ response' = get_all_lessons
  /\ Frame

GetLesson ==
  /\ request = NoRequest
  /\ \E lesson_id \in LessonIdInputs :
       /\ request' = [op |-> "get_lesson", lesson_id |-> lesson_id]
       /\ response' = get_lesson(lesson_id)
       /\ Frame

GetLessonsByDifficulty ==
  /\ request = NoRequest
  /\ \E difficulty \in Difficulty :
       /\ request' = [op |-> "get_lessons_by_difficulty", difficulty |-> difficulty]
       /\ response' = get_lessons_by_difficulty(difficulty)
       /\ Frame

SearchLessons ==
  /\ request = NoRequest
  /\ \E keyword \in Keywords :
       /\ request' = [op |-> "search_lessons", keyword |-> keyword]
       /\ response' = search_lessons(keyword)
       /\ Frame

GetAllQuizzes ==
  /\ request = NoRequest
  /\ request' = [op |-> "get_all_quizzes"]
  /\ response' = get_all_quizzes
  /\ Frame

GetQuiz ==
  /\ request = NoRequest
  /\ \E quiz_id \in QuizIdInputs :
       /\ request' = [op |-> "get_quiz", quiz_id |-> quiz_id]
       /\ response' = get_quiz(quiz_id)
       /\ Frame

GetQuizzesForLesson ==
  /\ request = NoRequest
  /\ \E lesson_id \in LessonIdInputs :
       /\ request' = [op |-> "get_quizzes_for_lesson", lesson_id |-> lesson_id]
       /\ response' = get_quizzes_for_lesson(lesson_id)
       /\ Frame

SubmitQuiz ==
  /\ request = NoRequest
  /\ \E quiz_id \in QuizIdInputs, submission \in Submissions :
       /\ request' = [op |-> "submit_quiz", quiz_id |-> quiz_id,
                      submission |-> submission]
       /\ response' = submit_quiz(quiz_id, submission)
       /\ Frame

GetProgressSummary ==
  /\ request = NoRequest
  /\ request' = [op |-> "get_progress_summary"]
  /\ response' = get_progress_summary
  /\ Frame

GetLearningPath ==
  /\ request = NoRequest
  /\ request' = [op |-> "get_learning_path"]
  /\ response' = get_learning_path
  /\ Frame

\* The response leaves; the service waits for the next request.
Reply ==
  /\ request # NoRequest
  /\ request' = NoRequest
  /\ response' = NoResponse
  /\ Frame

NextLessons ==
  \/ GetAllLessons
  \/ GetLesson
  \/ GetLessonsByDifficulty
  \/ SearchLessons
  \/ Reply

SpecLessons == InitLessons /\ [][NextLessons]_vars

Next ==
  \/ Root
  \/ GetAllQuizzes
  \/ GetQuiz
  \/ GetQuizzesForLesson
  \/ SubmitQuiz
  \/ GetProgressSummary
  \/ GetLearningPath
  \/ Reply

Spec == Init /\ [][Next]_vars

(***************************************************************************)
(* PROPERTIES OF submit_quiz (Spec)                                        *)
(***************************************************************************)
\* The exchange at hand is a grading request.
IsSubmit == request.op = "submit_quiz"

\* The ids of the quizzes in the store.
KnownQuizIds == {quizzes_db[i].id : i \in DOMAIN quizzes_db}

\* The grading request names a quiz of the store.
SubmitKnown == IsSubmit /\ request.quiz_id \in KnownQuizIds

\* The quiz a grading request names.
TheQuiz ==
  CHOOSE q \in {quizzes_db[i] : i \in DOMAIN quizzes_db} : q.id = request.quiz_id

TheQuestions == {TheQuiz.questions[i] : i \in DOMAIN TheQuiz.questions}

TheAnswers == request.submission.answers

\* The question of the quiz a submitted answer names.
QuestionOf(a) == CHOOSE q \in TheQuestions : q.id = a.question_id

\* The positions of the submitted answers that name a question of the quiz,
\* and of those that name it with its correct option.
MatchedAt == {i \in DOMAIN TheAnswers :
                \E q \in TheQuestions : q.id = TheAnswers[i].question_id}
CorrectAt == {i \in MatchedAt :
                TheAnswers[i].answer = QuestionOf(TheAnswers[i]).correct_answer}

\* s without its i-th element.
RemoveAt(s, i) == SubSeq(s, 1, i - 1) \o SubSeq(s, i + 1, Len(s))

\* C1: for every quiz of the store and every submission, the result's total
\* is the number of questions of the quiz.
C1_TotalIsQuestionCount ==
  SubmitKnown =>
    /\ response.status = 200
    /\ response.body.total = Cardinality(DOMAIN TheQuiz.questions)

\* C1 witness: a graded submission with more answers than the quiz has
\* questions, among them a repeated and an unknown question id.
C1_Witness ==
  /\ SubmitKnown
  /\ Len(TheAnswers) > response.body.total
  /\ response.body.total > 0
  /\ MatchedAt # DOMAIN TheAnswers
  /\ \E i, j \in MatchedAt : i # j /\ TheAnswers[i].question_id = TheAnswers[j].question_id

\* C2: the percentage of every result is within [0, 100] and is
\* 100 * score / total rounded to two decimals (0 when total = 0).
C2_PercentageInRange ==
  SubmitKnown =>
    LET r == response.body
        off == r.percentage * r.total - 10000 * r.score
    IN  /\ 0 <= r.percentage /\ r.percentage <= 10000
        /\ IF r.total > 0
           THEN 2 * off <= r.total /\ -2 * off <= r.total
           ELSE r.percentage = 0

\* Every question's correct option is submitted exactly once, and nothing else.
AllCorrectOnce ==
  /\ Len(TheAnswers) = Len(TheQuiz.questions)
  /\ \A q \in TheQuestions :
       \E i \in DOMAIN TheAnswers :
         /\ TheAnswers[i] = [question_id |-> q.id, answer |-> q.correct_answer]
         /\ \A j \in DOMAIN TheAnswers :
              TheAnswers[j].question_id = q.id => j = i

Perfect ==
  /\ response.body.score = Len(TheQuiz.questions)
  /\ response.body.total = Len(TheQuiz.questions)
  /\ response.body.percentage = 10000
  /\ response.body.passed

\* C4 as claimed: for every quiz, one with zero questions included, the
\* all-correct submission scores score = total, 100.0 percent and passes.
C4_AllCorrectIsPerfect == (SubmitKnown /\ AllCorrectOnce) => Perfect

\* C4 amended: the all-correct submission is perfect on every quiz with at
\* least one question; on a quiz with none, score = total = 0, the
\* percentage is 0 and passed is false.
C4_AllCorrectIsPerfectUnlessEmpty ==
  (SubmitKnown /\ AllCorrectOnce) =>
    IF Len(TheQuiz.questions) > 0 THEN Perfect
    ELSE /\ response.body.score = 0
         /\ response.body.total = 0
         /\ response.body.percentage = 0
         /\ ~response.body.passed

\* C4 witness: an all-correct submission of a quiz of several questions,
\* given in another order than the quiz's.
C4_Witness ==
  /\ SubmitKnown /\ AllCorrectOnce
  /\ Len(TheQuiz.questions) >= 3
  /\ \E i \in DOMAIN TheAnswers : TheAnswers[i].question_id # TheQuiz.questions[i].id
  /\ Perfect

\* The feedback line the source formats for an answer to question q.
LineOf(a, q) ==
  "Q" \o ToString(a.question_id) \o ": "
      \o (IF a.answer = q.correct_answer
          THEN CheckMark \o " Correct! " ELSE CrossMark \o " Incorrect. ")
      \o q.explanation

\* C5: every matched answer appends exactly one feedback line, in submission
\* order, and adds one to score iff it names the correct option, whatever
\* came before; repeated question ids are graded again each time.
C5_EachMatchedAnswerGraded ==
  SubmitKnown =>
    /\ Len(response.body.feedback) = Cardinality(MatchedAt)
    /\ \A i \in MatchedAt :
         response.body.feedback[Cardinality({j \in MatchedAt : j <= i})]
           = LineOf(TheAnswers[i], QuestionOf(TheAnswers[i]))
    /\ response.body.score = Cardinality(CorrectAt)

\* C5 witness: the correct answer to question 1 of the three-question quiz,
\* submitted twice: score 2 of total 3, two feedback lines.
C5_Witness ==
  /\ SubmitKnown
  /\ request.quiz_id = 1
  /\ TheAnswers = <<[question_id |-> 1, answer |-> 1], [question_id |-> 1, answer |-> 1]>>
  /\ response.body.score = 2
  /\ response.body.total = 3
  /\ Len(response.body.feedback) = 2

\* C6: an answer naming no question of the quiz changes nothing: the
\* response is the response to the submission without it, and no error.
C6_UnknownQuestionIgnored ==
  SubmitKnown =>
    /\ response.status = 200
    /\ \A i \in DOMAIN TheAnswers \ MatchedAt :
         response = submit_quiz(request.quiz_id,
                                [answers |-> RemoveAt(TheAnswers, i)])

\* C6 witness: quiz 2 graded on a submission holding, between two matched
\* answers, an answer to question 3, which only quiz 1 has.
C6_Witness ==
  /\ SubmitKnown
  /\ request.quiz_id = 2
  /\ Len(TheAnswers) = 3
  /\ MatchedAt = {1, 3}
  /\ TheAnswers[2].question_id = 3
  /\ response.body.score = 1
  /\ Len(response.body.feedback) = 2

(***************************************************************************)
(* PROPERTIES OF search_lessons (SpecLessons)                              *)
(***************************************************************************)
\* The pairs of an uppercase letter and its lowercase letter, both ways.
LetterPairs ==
  UNION {{<<SubSeq(UpperCase, i, i), SubSeq(LowerCase, i, i)>>,
          <<SubSeq(LowerCase, i, i), SubSeq(UpperCase, i, i)>>} :
         i \in 1..Len(UpperCase)}

\* Characters a and b are the same letter, case aside.
SameLetter(a, b) == a = b \/ <<a, b>> \in LetterPairs

\* text holds keyword as a substring, case aside.
Occurs(keyword, text) ==
  \E k \in 0..(Len(text) - Len(keyword)) :
    \A j \in 1..Len(keyword) :
      SameLetter(SubSeq(keyword, j, j), SubSeq(text, k + j, k + j))

\* The positions in the store of the lessons a search includes.
IncludedLessons(keyword) ==
  {i \in DOMAIN lessons_db :
     Occurs(keyword, lessons_db[i].title) \/ Occurs(keyword, lessons_db[i].content)}

\* The positions in a lesson's key concepts of those that hold the keyword.
MatchingConcepts(keyword, l) ==
  {c \in DOMAIN l.key_concepts : Occurs(keyword, l.key_concepts[c])}

\* The number of members of S up to i: the place of i among them.
RankIn(S, i) == Cardinality({j \in S : j <= i})

\* C8: search_lessons returns, in store order, exactly the lessons whose
\* title or content holds the keyword, case aside (a keyword held only by a
\* key concept does not include the lesson), each with the subsequence of
\* its key concepts that hold the keyword.
C8_SearchByTitleOrContent ==
  request.op = "search_lessons" =>
    LET inc == IncludedLessons(request.keyword)
        rows == response.body
    IN  /\ response.status = 200
        /\ Len(rows) = Cardinality(inc)
        /\ \A i \in inc :
             LET l == lessons_db[i]
                 row == rows[RankIn(inc, i)]
                 mc == MatchingConcepts(request.keyword, l)
             IN  /\ row.id = l.id
                 /\ row.title = l.title
                 /\ row.difficulty = l.difficulty
                 /\ Len(row.matching_concepts) = Cardinality(mc)
                 /\ \A c \in mc :
                      row.matching_concepts[RankIn(mc, c)] = l.key_concepts[c]

\* C8 witness: a search with a keyword not in lowercase that leaves out a
\* lesson one of whose key concepts holds it, and returns several lessons,
\* one with some but not all of its key concepts.
C8_Witness ==
  /\ request.op = "search_lessons"
  /\ request.keyword # Lower(request.keyword)
  /\ \E i \in DOMAIN lessons_db \ IncludedLessons(request.keyword) :
       MatchingConcepts(request.keyword, lessons_db[i]) # {}
  /\ Len(response.body) >= 2
  /\ \E k \in DOMAIN response.body :
       /\ response.body[k].matching_concepts # <<>>
       /\ \E i \in DOMAIN lessons_db :
            /\ lessons_db[i].id = response.body[k].id
            /\ Len(response.body[k].matching_concepts) < Len(lessons_db[i].key_concepts)

(***************************************************************************)
(* THE SERVICE UNDER CONCURRENT REQUESTS (SpecConcurrent)                  *)
(* NumRequests slots each hold the frame of one request in flight.  A read *)
(* handler runs in one step.  submit_quiz is cut at every statement        *)
(* boundary a thread could be preempted at (an event loop runs it without  *)
(* interruption, which is one of the interleavings): the lookup, each      *)
(* iteration of the loop, the return.  A frame's locals are its own.       *)
(***************************************************************************)
\* Requests in flight at once.
NumRequests == 2

\* Longest submission of a concurrent grading request.
MaxConcurrentAnswers == 1

Slots == 1..NumRequests

\* Grading requests in flight: quiz 2 or no quiz, answers to its question 1
\* (correctly) and 2 (incorrectly).
ConcurrentQuizIds == {2, 4}
ConcurrentAnswers ==
  {[question_id |-> 1, answer |-> 1], [question_id |-> 2, answer |-> 1]}
ConcurrentSubmissions ==
  {[answers |-> a] : a \in SeqsUpTo(ConcurrentAnswers, MaxConcurrentAnswers)}

\* A slot with no request.
FreeSlot == [op |-> "none", args |-> <<>>, pc |-> "free", locals |-> <<>>,
             response |-> NoResponse]

\* The frame of a read handler that has run.
Served(op, args, resp) ==
  [op |-> op, args |-> args, pc |-> "done", locals |-> <<>>, response |-> resp]

InitConcurrent ==
  /\ quizzes_db = QuizzesData
  /\ lessons_db = LessonsData
  /\ request = NoRequest
  /\ response = NoResponse
  /\ inflight = [r \in Slots |-> FreeSlot]
  /\ ArithmeticIdle /\ RoutingIdle

\* No handler assigns to the stores; the rest belongs to other specifications.
FrameConcurrent ==
  UNCHANGED <<quizzes_db, lessons_db, request, response, grade_in, grade_out,
              http_request, http_routed>>

\* A request arrives at free slot r and its handler is entered, leaving the
\* frame given.
Enter(r, frame) ==
  /\ inflight[r].pc = "free"
  /\ inflight' = [inflight EXCEPT ![r] = frame]
  /\ FrameConcurrent

ConcurrentGetAllLessons(r) ==
  Enter(r, Served("get_all_lessons", <<>>, get_all_lessons))

ConcurrentGetLesson(r) ==
  \E lesson_id \in {1, 6} :
    Enter(r, Served("get_lesson", <<lesson_id>>, get_lesson(lesson_id)))

ConcurrentGetLessonsByDifficulty(r) ==
  Enter(r, Served("get_lessons_by_difficulty", <<"advanced">>,
                  get_lessons_by_difficulty("advanced")))

ConcurrentSearchLessons(r) ==
  Enter(r, Served("search_lessons", <<"Ch">>, search_lessons("Ch")))

ConcurrentGetAllQuizzes(r) ==
  Enter(r, Served("get_all_quizzes", <<>>, get_all_quizzes))

ConcurrentGetQuiz(r) ==
  \E quiz_id \in ConcurrentQuizIds :
    Enter(r, Served("get_quiz", <<quiz_id>>, get_quiz(quiz_id)))

ConcurrentGetQuizzesForLesson(r) ==
  Enter(r, Served("get_quizzes_for_lesson", <<2>>, get_quizzes_for_lesson(2)))

ConcurrentGetProgressSummary(r) ==
  Enter(r, Served("get_progress_summary", <<>>, get_progress_summary))

\* submit_quiz is entered with its arguments bound.
SubmitEnter(r) ==
  \E quiz_id \in ConcurrentQuizIds, submission \in ConcurrentSubmissions :
    Enter(r, [op |-> "submit_quiz", args |-> <<quiz_id, submission>>,
              pc |-> "lookup", locals |-> <<>>, response |-> NoResponse])

\* quiz = next(...); if not quiz: raise HTTPException(404); score = 0;
\* feedback = []
SubmitLookup(r) ==
  /\ inflight[r].pc = "lookup"
  /\ LET quiz == FindQuiz(inflight[r].args[1])
     IN  inflight' =
           [inflight EXCEPT ![r] =
              IF quiz = <<>>
              THEN [@ EXCEPT !.pc = "done",
                             !.response = HTTPException(404, "Quiz not found")]
              ELSE [@ EXCEPT !.pc = "loop",
                             !.locals = <<[quiz |-> quiz[1],
                                           rest |-> inflight[r].args[2].answers,
                                           score |-> NewAccumulator.score,
                                           feedback |-> NewAccumulator.feedback]>>]]
  /\ FrameConcurrent

\* One iteration of the loop, on the next answer.
SubmitLoop(r) ==
  /\ inflight[r].pc = "loop"
  /\ inflight[r].locals[1].rest # <<>>
  /\ LET l == inflight[r].locals[1]
         acc == GradeAnswer(l.quiz, Head(l.rest),
                            [score |-> l.score, feedback |-> l.feedback])
     IN  inflight' =
           [inflight EXCEPT ![r].locals =
              <<[quiz |-> l.quiz, rest |-> Tail(l.rest),
                 score |-> acc.score, feedback |-> acc.feedback]>>]
  /\ FrameConcurrent

\* The loop is over: total, percentage, passed, return QuizResult(...).
SubmitReturn(r) ==
  /\ inflight[r].pc = "loop"
  /\ inflight[r].locals[1].rest = <<>>
  /\ LET l == inflight[r].locals[1]
     IN  inflight' =
           [inflight EXCEPT ![r] =
              [@ EXCEPT !.pc = "done",
                        !.response = Ok(QuizResult(l.score, Total(l.quiz), l.feedback))]]
  /\ FrameConcurrent

\* The response leaves and the slot is free for the next request.
ReplyConcurrent(r) ==
  /\ inflight[r].pc = "done"
  /\ inflight' = [inflight EXCEPT ![r] = FreeSlot]
  /\ FrameConcurrent

NextConcurrent ==
  \E r \in Slots :
    \/ ConcurrentGetAllLessons(r)
    \/ ConcurrentGetLesson(r)
    \/ ConcurrentGetLessonsByDifficulty(r)
    \/ ConcurrentSearchLessons(r)
    \/ ConcurrentGetAllQuizzes(r)
    \/ ConcurrentGetQuiz(r)
    \/ ConcurrentGetQuizzesForLesson(r)
    \/ ConcurrentGetProgressSummary(r)
    \/ SubmitEnter(r)
    \/ SubmitLookup(r)
    \/ SubmitLoop(r)
    \/ SubmitReturn(r)
    \/ ReplyConcurrent(r)

SpecConcurrent == InitConcurrent /\ [][NextConcurrent]_vars

\* The frames of the grading requests in flight.
Grading == {inflight[r] : r \in {s \in Slots : inflight[s].op = "submit_quiz"}}

\* C7: submit_quiz with the id of no quiz of the store signals 404 "Quiz
\* not found", returns no result and never reaches the grading loop; with
\* the id of a quiz of the store it never signals not-found and returns a
\* QuizResult.
C7_UnknownQuizNotFound ==
  \A f \in Grading :
    IF f.args[1] \in KnownQuizIds
    THEN f.pc = "done" =>
           /\ f.response.status = 200
           /\ DOMAIN f.response.body
                = {"score", "total", "percentage", "passed", "feedback"}
    ELSE /\ f.pc \in {"lookup", "done"}
         /\ f.locals = <<>>
         /\ f.pc = "done" =>
              f.response
                = [status |-> 404, body |-> [detail |-> "Quiz not found"]]

\* C7 witness: a grading request for quiz 4, which the store does not have,
\* answered 404 whatever its answer, beside a graded request for quiz 2.
C7_Witness ==
  \E f, g \in Grading :
    /\ f.args[1] = 4
    /\ Len(f.args[2].answers) = 1
    /\ f.pc = "done"
    /\ f.response.status = 404
    /\ g.args[1] = 2
    /\ g.pc = "done"
    /\ g.response.status = 200

\* C9: whatever the interleaving, the stores keep their startup contents
\* and every grading request returns what it returns when run alone.
C9_RequestsIndependent ==
  /\ quizzes_db = QuizzesData
  /\ lessons_db = LessonsData
  /\ \A f \in Grading :
       f.pc = "done" =>
         f.response = submit_quiz(f.args[1], f.args[2])

\* C9 witness: a grading request has returned score 1 of 2 for its correct
\* answer while another, still in its loop, has graded an incorrect answer of
\* its own: score 0 and one feedback line.
C9_Witness ==
  \E f, g \in Grading :
    /\ f.pc = "done"
    /\ f.response.status = 200
    /\ f.response.body.score = 1
    /\ f.response.body.total = 2
    /\ g.pc = "loop"
    /\ g.locals[1].rest = <<>>
    /\ g.locals[1].score = 0
    /\ Len(g.locals[1].feedback) = 1

(***************************************************************************)
(* THE ARITHMETIC OF submit_quiz ON ANY QUIZ SIZE (SpecArithmetic)         *)
(* The statements after the loop read only score and len(quiz.questions).  *)
(* Here they run on every score from 0 to total, for every total up to     *)
(* MaxGradeTotal: the results of the quizzes of that many questions graded *)
(* on submissions without repeats.                                         *)
(***************************************************************************)
\* Most questions of a quiz.
MaxGradeTotal == 2003

InitArithmetic ==
  /\ quizzes_db = QuizzesData
  /\ lessons_db = LessonsData
  /\ request = NoRequest
  /\ response = NoResponse
  /\ ConcurrentIdle /\ RoutingIdle
  /\ \E total \in 0..MaxGradeTotal : \E score \in 0..total :
       grade_in = <<score, total>>
  /\ grade_out = <<>>

\* round(percentage, 2) on the binary64 value of score / total * 100.  Off a
\* tie the error of the two float operations is far below the distance to
\* the nearest half hundredth and the result is Round2.  On an exact tie
\* (total a multiple of 32, as in 23 / 160 and 49 / 160) that error decides
\* the direction: either neighbouring hundredth can be the result.
Round2Outcomes(percentage) ==
  LET n == percentage[1] * 100
      d == percentage[2]
  IN  IF 2 * (n % d) = d THEN {n \div d, (n \div d) + 1}
      ELSE {Round2(percentage)}

\* total = ...; percentage = ...; passed = ...; return QuizResult(...)
GradeArithmetic ==
  /\ grade_out = <<>>
  /\ \E rounded \in Round2Outcomes(Percentage(grade_in[1], grade_in[2])) :
       grade_out' = <<[QuizResult(grade_in[1], grade_in[2], <<>>)
                         EXCEPT !.percentage = rounded]>>
  /\ UNCHANGED <<quizzes_db, lessons_db, request, response, inflight,
                 grade_in, http_request, http_routed>>

NextArithmetic == GradeArithmetic

SpecArithmetic == InitArithmetic /\ [][NextArithmetic]_vars

\* C3: in every result, passed is true iff the percentage field, the value
\* rounded to two decimals, is at least 70, for every quiz size and score.
C3_PassedIffRoundedAtLeast70 ==
  grade_out # <<>> =>
    (grade_out[1].passed <=> grade_out[1].percentage >= 7000)

(***************************************************************************)
(* ROUTING (SpecRoute)                                                     *)
(* The @app.get / @app.post decorators register the routes in the order of *)
(* the file.  A request goes to the first route whose path pattern and     *)
(* method match; a {param} of the pattern matches one or more characters   *)
(* other than "/".  The path parameters are then converted to the types    *)
(* of the handler's signature, and a failed conversion is answered with    *)
(* 422 without calling the handler.                                        *)
(***************************************************************************)
Routes ==
  << [method |-> "GET",  path |-> "/",                               endpoint |-> "root"],
     [method |-> "GET",  path |-> "/lessons",                        endpoint |-> "get_all_lessons"],
     [method |-> "GET",  path |-> "/lessons/{lesson_id}",            endpoint |-> "get_lesson"],
     [method |-> "GET",  path |-> "/lessons/difficulty/{difficulty}", endpoint |-> "get_lessons_by_difficulty"],
     [method |-> "GET",  path |-> "/lessons/search",                 endpoint |-> "search_lessons"],
     [method |-> "GET",  path |-> "/quizzes",                        endpoint |-> "get_all_quizzes"],
     [method |-> "GET",  path |-> "/quizzes/{quiz_id}",              endpoint |-> "get_quiz"],
     [method |-> "GET",  path |-> "/quizzes/lesson/{lesson_id}",     endpoint |-> "get_quizzes_for_lesson"],
     [method |-> "POST", path |-> "/quizzes/{quiz_id}/submit",       endpoint |-> "submit_quiz"],
     [method |-> "GET",  path |-> "/progress/summary",               endpoint |-> "get_progress_summary"],
     [method |-> "GET",  path |-> "/learning-path",                  endpoint |-> "get_learning_path"] >>

\* The string s from its i-th character on.
Tail_(s, i) == SubSeq(s, i, Len(s))

\* The length of the longest prefix of s without "/".
RECURSIVE SegmentLen(_)
SegmentLen(s) ==
  IF s = "" \/ SubSeq(s, 1, 1) = "/" THEN 0
  ELSE 1 + SegmentLen(Tail_(s, 2))

\* The position of the first "}" of s.
RECURSIVE CloseBrace(_)
CloseBrace(s) ==
  IF SubSeq(s, 1, 1) = "}" THEN 1 ELSE 1 + CloseBrace(Tail_(s, 2))

\* The values of the parameters of pattern in path, in the order of the
\* pattern, inside a one-element sequence; <<>> when path does not match.
RECURSIVE MatchPath(_, _)
MatchPath(pattern, path) ==
  IF pattern = "" THEN (IF path = "" THEN << <<>> >> ELSE <<>>)
  ELSE IF SubSeq(pattern, 1, 1) = "{"
    THEN LET n == SegmentLen(path)
             rest == IF n = 0 THEN <<>>
                     ELSE MatchPath(Tail_(pattern, CloseBrace(pattern) + 1),
                                    Tail_(path, n + 1))
         IN  IF rest = <<>> THEN <<>>
             ELSE << <<SubSeq(path, 1, n)>> \o rest[1] >>
  ELSE IF path = "" \/ SubSeq(pattern, 1, 1) # SubSeq(path, 1, 1) THEN <<>>
  ELSE MatchPath(Tail_(pattern, 2), Tail_(path, 2))

\* The indexes of the routes that match the path, and of those that match
\* the path and the method.
PathMatches(req) ==
  {i \in 1..Len(Routes) : MatchPath(Routes[i].path, req.path) # <<>>}
FullMatches(req) ==
  {i \in PathMatches(req) : Routes[i].method = req.method}

Digits == "0123456789"
DigitValue == [c \in {SubSeq(Digits, i, i) : i \in 1..Len(Digits)} |->
                 (CHOOSE i \in 1..Len(Digits) : SubSeq(Digits, i, i) = c) - 1]

\* Whether the text of a path parameter is a decimal integer, and its value.
IsInt(s) ==
  /\ s # ""
  /\ \A i \in 1..Len(s) : SubSeq(s, i, i) \in DOMAIN DigitValue
RECURSIVE IntOf(_)
IntOf(s) ==
  IF s = "" THEN 0
  ELSE 10 * IntOf(SubSeq(s, 1, Len(s) - 1)) + DigitValue[SubSeq(s, Len(s), Len(s))]

\* The answer to a request whose parameter does not convert.
RequestValidationError(param) ==
  [status |-> 422, body |-> [detail |-> param]]

\* The handler of the matched route on the converted parameters.
CallEndpoint(endpoint, params, req) ==
  CASE endpoint = "root" -> root
    [] endpoint = "get_all_lessons" -> get_all_lessons
    [] endpoint = "get_lesson" ->
         IF IsInt(params[1]) THEN get_lesson(IntOf(params[1]))
         ELSE RequestValidationError("lesson_id")
    [] endpoint = "get_lessons_by_difficulty" ->
         IF params[1] \in Difficulty THEN get_lessons_by_difficulty(params[1])
         ELSE RequestValidationError("difficulty")
    [] endpoint = "search_lessons" ->
         IF req.query # <<>> THEN search_lessons(req.query[1])
         ELSE RequestValidationError("keyword")
    [] endpoint = "get_all_quizzes" -> get_all_quizzes
    [] endpoint = "get_quiz" ->
         IF IsInt(params[1]) THEN get_quiz(IntOf(params[1]))
         ELSE RequestValidationError("quiz_id")
    [] endpoint = "get_quizzes_for_lesson" ->
         IF IsInt(params[1]) THEN get_quizzes_for_lesson(IntOf(params[1]))
         ELSE RequestValidationError("lesson_id")
    [] endpoint = "submit_quiz" ->
         IF IsInt(params[1]) THEN submit_quiz(IntOf(params[1]), req.body[1])
         ELSE RequestValidationError("quiz_id")
    [] endpoint = "get_progress_summary" -> get_progress_summary
    [] endpoint = "get_learning_path" -> get_learning_path

\* The route taken by a request and the answer to it.
Route(req) ==
  IF FullMatches(req) # {}
    THEN LET i == Min(FullMatches(req))
             params == MatchPath(Routes[i].path, req.path)[1]
         IN  [endpoint |-> Routes[i].endpoint,
              response |-> CallEndpoint(Routes[i].endpoint, params, req)]
  ELSE IF PathMatches(req) # {}
    THEN [endpoint |-> "none", response |-> HTTPException(405, "Method Not Allowed")]
  ELSE [endpoint |-> "none", response |-> HTTPException(404, "Not Found")]

\* The request a client sends for an operation of the API: op is the
\* operation it means, the other fields are what goes over the wire.
HttpRequest(op, method, path, query, body) ==
  [op |-> op, method |-> method, path |-> path, query |-> query, body |-> body]

ClientRequests ==
  {HttpRequest("root", "GET", "/", <<>>, <<>>),
   HttpRequest("get_all_lessons", "GET", "/lessons", <<>>, <<>>),
   HttpRequest("get_all_quizzes", "GET", "/quizzes", <<>>, <<>>),
   HttpRequest("get_progress_summary", "GET", "/progress/summary", <<>>, <<>>),
   HttpRequest("get_learning_path", "GET", "/learning-path", <<>>, <<>>)}
  \cup {HttpRequest("get_lesson", "GET", "/lessons/" \o ToString(id), <<>>, <<>>) :
          id \in LessonIdInputs}
  \cup {HttpRequest("get_lessons_by_difficulty", "GET", "/lessons/difficulty/" \o d,
                    <<>>, <<>>) : d \in Difficulty}
  \cup {HttpRequest("search_lessons", "GET", "/lessons/search", <<k>>, <<>>) :
          k \in Keywords}
  \cup {HttpRequest("get_quiz", "GET", "/quizzes/" \o ToString(id), <<>>, <<>>) :
          id \in QuizIdInputs}
  \cup {HttpRequest("get_quizzes_for_lesson", "GET", "/quizzes/lesson/" \o ToString(id),
                    <<>>, <<>>) : id \in LessonIdInputs}
  \cup {HttpRequest("submit_quiz", "POST", "/quizzes/" \o ToString(id) \o "/submit",
                    <<>>, <<s>>) : id \in QuizIdInputs, s \in ConcurrentSubmissions}

InitRoute ==
  /\ quizzes_db = QuizzesData
  /\ lessons_db = LessonsData
  /\ request = NoRequest
  /\ response = NoResponse
  /\ ConcurrentIdle /\ ArithmeticIdle /\ RoutingIdle

FrameRoute ==
  UNCHANGED <<quizzes_db, lessons_db, request, response, inflight,
              grade_in, grade_out>>

\* A client sends a request.
Send ==
  /\ http_request = <<>>
  /\ \E req \in ClientRequests :
       /\ http_request' = <<req>>
       /\ UNCHANGED http_routed
       /\ FrameRoute

\* The application routes it and answers.
Dispatch ==
  /\ http_request # <<>>
  /\ http_routed = <<>>
  /\ http_routed' = <<Route(http_request[1])>>
  /\ UNCHANGED http_request
  /\ FrameRoute

\* The client has the answer.
Receive ==
  /\ http_routed # <<>>
  /\ http_request' = <<>>
  /\ http_routed' = <<>>
  /\ FrameRoute

NextRoute == Send \/ Dispatch \/ Receive

SpecRoute == InitRoute /\ [][NextRoute]_vars

\* C10: every request is answered by the handler declared for its
\* operation, and a keyword search is answered with a success response.
C10_DispatchedToDeclaredHandler ==
  http_routed # <<>> =>
    /\ http_routed[1].endpoint = http_request[1].op
    /\ (http_request[1].op = "search_lessons" =>
          http_routed[1].response.status = 200)

=============================================================================
